---- MODULE Spec2Model ----
(***************************************************************************)
(* Model of dt_check.py: find_missing_datetimes (text input) and           *)
(* find_missing_datetimes_from_dtlist (typed input), together with a       *)
(* caller that calls one of them, changes one item of its input, and calls *)
(* again.                                                                  *)
(*                                                                         *)
(* A timestamp is the number of seconds since midnight of day 0 of a naive *)
(* clock; a calendar date is its day number.  NaT (pandas' "not a time",   *)
(* which is also what None becomes in a datetime Series) is the one value  *)
(* outside that range.  A text item is the tuple of numeric fields of a    *)
(* "YYYY-MM-DD HH:MM:SS" string, <<day, hh, mm, ss>>; a string with no     *)
(* such shape ("", "xyz", "not-a-date") is the empty tuple.                *)
(***************************************************************************)
EXTENDS Integers, Sequences, FiniteSets

VARIABLES input, truth_index, target_date, variant, container, pc, edits,
          edit, prev_result, result

vars == <<input, truth_index, target_date, variant, container, pc, edits,
          edit, prev_result, result>>

(* ---------------------------- bounds ---------------------------------- *)

\* target dates are the days 1..MaxDate
MaxDate == 2

\* how many times the caller changes its input and calls again
MaxEdits == 1

(* ------------------------ program constants --------------------------- *)

\* pd.Timedelta(days=1), in seconds
SecondsPerDay == 86400

\* pd.Timedelta(seconds=1), in seconds
OneSecond == 1

\* freq="10S", in seconds
Freq == 10

\* pandas' missing timestamp
NaT == -1

(* ---------------------- pandas building blocks ------------------------ *)

Range(s) == {s[i] : i \in DOMAIN s}

isna(x) == x = NaT

\* datetime.datetime.combine(date, datetime.time(hh, mm, ss)) as a Timestamp
combine(date, hh, mm, ss) == date * SecondsPerDay + hh * 3600 + mm * 60 + ss

\* pd.date_range(start=start, end=end, freq=...): start, start+freq, ...,
\* up to and including end
date_range(start, end, freq) ==
    LET n == (end - start) \div freq + 1
    IN  SubSeq([i \in 1..n |-> start + (i - 1) * freq], 1, n)

\* one string under pd.to_datetime(..., errors="coerce")
Parse(tok) ==
    IF /\ Len(tok) = 4
       /\ tok[1] >= 0
       /\ tok[2] \in 0..23
       /\ tok[3] \in 0..59
       /\ tok[4] \in 0..59
    THEN combine(tok[1], tok[2], tok[3], tok[4])
    ELSE NaT

\* pd.to_datetime(strs, errors="coerce"): a DatetimeIndex for a list, a
\* Series (with the default RangeIndex) for a Series
to_datetime(strs, cont) ==
    LET n == Len(strs)
    IN  [kind |-> IF cont = "Series" THEN "Series" ELSE "DatetimeIndex",
         values |-> SubSeq([i \in 1..n |-> Parse(strs[i])], 1, n)]

\* s[s.isna()].index.tolist(): the zero-based labels of the NaT rows
na_labels(values) ==
    LET n == Len(values)
        labels == [i \in 1..n |-> i - 1]
        IsNaRow(l) == isna(values[l + 1])
    IN  SelectSeq(labels, IsNaRow)

\* s.dropna()
dropna(values) ==
    LET Valid(x) == ~isna(x) IN SelectSeq(values, Valid)

\* pd.Series(True, index=idx).sort_index(): a sorted index is given by the
\* set of its labels and by whether some label occurs twice
series_sorted(idx) ==
    LET labels == Range(idx)
    IN  [labels |-> labels, is_unique |-> Cardinality(labels) = Len(idx)]

\* s_found.reindex(truth): pandas refuses to reindex an axis with duplicate
\* labels (ValueError); otherwise each label of truth gets its value in
\* s_found, or NaN when s_found has no such label
reindex(s_found, truth) ==
    LET n == Len(truth)
        labels == s_found.labels
    IN  [ok |-> s_found.is_unique,
         values |-> SubSeq([i \in 1..n |-> IF truth[i] \in labels THEN "True" ELSE "NaN"],
                           1, n)]

\* aligned.isna()
isna_each(values) ==
    LET n == Len(values)
    IN  SubSeq([i \in 1..n |-> values[i] = "NaN"], 1, n)

\* aligned[is_missing].index
index_where(mask, truth) ==
    LET n == Len(truth)
        rows == [i \in 1..n |-> i]
        Keep(i) == mask[i]
        kept == SelectSeq(rows, Keep)
        m == Len(kept)
    IN  SubSeq([k \in 1..m |-> truth[kept[k]]], 1, m)

\* int(is_missing.sum())
mask_sum(mask) == Cardinality({i \in DOMAIN mask : mask[i]})

(* --------------------------- the program ------------------------------ *)

\* an end that is the next day's midnight
window_end_next_midnight(start) == start + SecondsPerDay

\* end = start + pd.Timedelta(days=1) - pd.Timedelta(seconds=1)
window_end(start) == start + SecondsPerDay - OneSecond

\* a result dict whose match looks at missing_count alone
assemble_match_only_missing(missing_count, missing_index, invalid_count, invalid_positions) ==
    [status |-> "returned", error |-> "",
     match |-> missing_count = 0,
     missing_count |-> missing_count,
     missing_index |-> missing_index,
     invalid_count |-> invalid_count,
     invalid_positions |-> invalid_positions]

\* the result dict
assemble(missing_count, missing_index, invalid_count, invalid_positions) ==
    [status |-> "returned", error |-> "",
     match |-> missing_count = 0 /\ invalid_count = 0,
     missing_count |-> missing_count,
     missing_index |-> missing_index,
     invalid_count |-> invalid_count,
     invalid_positions |-> invalid_positions]

\* the call ends with an exception instead of a result dict
Raised(err) ==
    [status |-> "raised", error |-> err, match |-> FALSE, missing_count |-> 0,
     missing_index |-> <<>>, invalid_count |-> 0, invalid_positions |-> <<>>]

\* no call has been made
NoResult ==
    [status |-> "none", error |-> "", match |-> FALSE, missing_count |-> 0,
     missing_index |-> <<>>, invalid_count |-> 0, invalid_positions |-> <<>>]

\* step 1 of both functions: the local truth_index
build_truth_index(date) ==
    LET start == combine(date, 0, 0, 0)
        end == window_end(start)
    IN  date_range(start, end, Freq)

\* What the call gives back.  A DatetimeIndex has no attribute "index", so
\* line 39 raises AttributeError unless pd.to_datetime was given a Series.
find_missing_datetimes(strs, cont, date) ==
    LET truth == build_truth_index(date)
        dt_series == to_datetime(strs, cont)
    IN  IF dt_series.kind # "Series"
        THEN Raised("AttributeError")
        ELSE
        LET invalid_positions == na_labels(dt_series.values)
            invalid_count == Len(invalid_positions)
            s_found == series_sorted(dropna(dt_series.values))
            aligned == reindex(s_found, truth)
        IN  IF ~aligned.ok
            THEN Raised("ValueError")
            ELSE
            LET is_missing == isna_each(aligned.values)
                missing_index == index_where(is_missing, truth)
                missing_count == mask_sum(is_missing)
            IN  assemble(missing_count, missing_index, invalid_count, invalid_positions)

find_missing_datetimes_from_dtlist(dt_list, date) ==
    LET truth == build_truth_index(date)
        invalid_positions == na_labels(dt_list)
        invalid_count == Len(invalid_positions)
        s_found == series_sorted(dropna(dt_list))
        aligned == reindex(s_found, truth)
    IN  IF ~aligned.ok
        THEN Raised("ValueError")
        ELSE
        LET is_missing == isna_each(aligned.values)
            missing_index == index_where(is_missing, truth)
            missing_count == mask_sum(is_missing)
        IN  assemble(missing_count, missing_index, invalid_count, invalid_positions)

(* ------------------------------ inputs -------------------------------- *)

\* the string a timestamp is written as, "YYYY-MM-DD HH:MM:SS"
Format(ts) ==
    <<ts \div SecondsPerDay, (ts % SecondsPerDay) \div 3600,
      (ts % 3600) \div 60, ts % 60>>

\* an item of the input of the given entry point, from a timestamp or NaT
AsItem(v, ts) ==
    IF v = "typed" THEN ts ELSE IF isna(ts) THEN <<>> ELSE Format(ts)

AsItems(v, tss) == LET n == Len(tss) IN [i \in 1..n |-> AsItem(v, tss[i])]

\* the timestamp an item of the input stands for, NaT if none
Resolve(v, item) == IF v = "text" THEN Parse(item) ELSE item

Resolved(v, items) == {Resolve(v, items[i]) : i \in DOMAIN items} \ {NaT}

Reverse(s) == LET n == Len(s) IN [i \in 1..n |-> s[n + 1 - i]]

Rotate(s, k) == LET n == Len(s) IN [i \in 1..n |-> s[((i - 1 + k) % n) + 1]]

Midnight(date) == combine(date, 0, 0, 0)

\* every slot of the day, in ascending order
Canonical(date) ==
    LET n == SecondsPerDay \div Freq
    IN  SubSeq([i \in 1..n |-> Midnight(date) + (i - 1) * Freq], 1, n)

\* the inputs the caller starts from: nothing; a few entries, one of them
\* past the day and one unusable; entries with a repeated timestamp; the
\* whole day in ascending order and in another order
BaseInputs(date) ==
    LET m == Midnight(date)
        full == Canonical(date)
    IN  {<<>>,
         <<m + SecondsPerDay, NaT, m>>,
         <<m + 10, m, m>>,
         full, Reverse(Rotate(full, 4321))}

\* the timestamps the caller may append: the first slot, a time between
\* two slots, the next midnight
Appendable(date) ==
    LET m == Midnight(date)
    IN  {m, m + 5, m + SecondsPerDay}

\* the item the caller uses that resolves to no timestamp:
\* "YYYY-MM-DD 00:61:00" as text, None as a typed value
BadItem(v, date) == IF v = "text" THEN <<date, 0, 61, 0>> ELSE NaT

NoEdit == [op |-> "none", pos |-> 0, old |-> NaT, new |-> NaT]

Init ==
    /\ target_date \in 1..MaxDate
    /\ variant \in {"text", "typed"}
    /\ container \in IF variant = "text" THEN {"list", "Series"} ELSE {"list"}
    /\ \E b \in BaseInputs(target_date) : input = AsItems(variant, b)
    /\ pc = "ready"
    /\ result = NoResult
    /\ prev_result = NoResult
    /\ edit = NoEdit
    /\ edits = 0
    /\ truth_index = <<>>

(* ------------------------------ actions ------------------------------- *)

CallText ==
    /\ pc = "ready"
    /\ variant = "text"
    /\ truth_index' = build_truth_index(target_date)
    /\ result' = find_missing_datetimes(input, container, target_date)
    /\ pc' = "done"
    /\ UNCHANGED <<target_date, variant, container, input, prev_result, edit, edits>>

CallTyped ==
    /\ pc = "ready"
    /\ variant = "typed"
    /\ truth_index' = build_truth_index(target_date)
    /\ result' = find_missing_datetimes_from_dtlist(input, target_date)
    /\ pc' = "done"
    /\ UNCHANGED <<target_date, variant, container, input, prev_result, edit, edits>>

\* the caller keeps the last outcome and prepares the next input
Edited(e, items) ==
    /\ pc = "done"
    /\ edits < MaxEdits
    /\ edits' = edits + 1
    /\ edit' = e
    /\ input' = items
    /\ prev_result' = result
    /\ result' = NoResult
    /\ pc' = "ready"
    /\ UNCHANGED <<target_date, variant, container, truth_index>>

\* the caller drops the first item
RemoveEntry ==
    /\ input # <<>>
    /\ Edited([op |-> "remove", pos |-> 0,
               old |-> Resolve(variant, Head(input)), new |-> NaT],
              Tail(input))

\* the caller overwrites the last item
ReplaceWithInvalid ==
    /\ input # <<>>
    /\ LET p == Len(input)
       IN  Edited([op |-> "replace", pos |-> p - 1,
                   old |-> Resolve(variant, input[p]), new |-> NaT],
                  [input EXCEPT ![p] = BadItem(variant, target_date)])

AppendEntry ==
    \E ts \in Appendable(target_date) :
        Edited([op |-> "append", pos |-> Len(input), old |-> NaT, new |-> ts],
               Append(input, AsItem(variant, ts)))

AppendInvalid ==
    Edited([op |-> "append", pos |-> Len(input), old |-> NaT, new |-> NaT],
           Append(input, BadItem(variant, target_date)))

Next ==
    \/ CallText
    \/ CallTyped
    \/ RemoveEntry
    \/ ReplaceWithInvalid
    \/ AppendEntry
    \/ AppendInvalid

Spec == Init /\ [][Next]_vars

(* ------------------------------ claims -------------------------------- *)

\* the caller has made the call that follows an edit of the given kind
CalledAfter(op) == pc = "done" /\ edit.op = op

Grid == Range(Canonical(target_date))

\* C1: whenever a call returns a result, its match is true if and only if
\* its missing_count is 0 and its invalid_count is 0.
C1_MatchIffNothingMissingNothingInvalid ==
    result.status = "returned" =>
        (result.match <=> (result.missing_count = 0 /\ result.invalid_count = 0))

\* a result with every slot filled and one invalid item: no match
C1_Witness ==
    /\ result.status = "returned"
    /\ result.missing_count = 0
    /\ result.invalid_count = 1
    /\ ~result.match

\* C2: every call gives as missing_index the slots of the target day that
\* no input item resolves to, in ascending order, and as missing_count the
\* length of missing_index.
C2_MissingIndexIsTheUnfilledSlots ==
    pc = "done" =>
        LET parsed == Resolved(variant, input)
            Unfilled(t) == t \notin parsed
        IN  /\ result.status = "returned"
            /\ result.missing_index = SelectSeq(Canonical(target_date), Unfilled)
            /\ result.missing_count = Len(result.missing_index)

\* C3: when a valid item is appended for a slot that the input already
\* fills, the call still returns a result, with the missing_count and
\* missing_index of the call before, and a missing_count that is not negative.
C3_DuplicatesCountOnce ==
    (/\ CalledAfter("append")
     /\ prev_result.status = "returned"
     /\ edit.new \in Grid
     /\ edit.new \in Resolved(variant, SubSeq(input, 1, Len(input) - 1)))
    => /\ result.status = "returned"
       /\ result.missing_count = prev_result.missing_count
       /\ result.missing_index = prev_result.missing_index
       /\ result.missing_count >= 0

\* C4: a call whose input holds items that resolve to no timestamp returns
\* a result that records the position of each of them; it does not raise.
C4_MalformedInputNeverAborts ==
    (/\ pc = "done"
     /\ \E i \in DOMAIN input : isna(Resolve(variant, input[i])))
    => /\ result.status = "returned"
       /\ \A i \in DOMAIN input :
            isna(Resolve(variant, input[i])) => i - 1 \in Range(result.invalid_positions)

\* C5: every call gives as invalid_positions the ascending zero-based
\* positions of exactly the items that resolve to no timestamp, and as
\* invalid_count the length of invalid_positions.
C5_InvalidPositionsAreTheUnresolvedItems ==
    pc = "done" =>
        LET inv == result.invalid_positions
        IN  /\ result.status = "returned"
            /\ \A i \in DOMAIN input :
                 isna(Resolve(variant, input[i])) <=> i - 1 \in Range(inv)
            /\ \A k \in 1..(Len(inv) - 1) : inv[k] < inv[k + 1]
            /\ result.invalid_count = Len(inv)

\* C6: a call whose input holds every slot of the target day exactly once,
\* in any order, and nothing else, gives match = true, missing_count = 0
\* and invalid_count = 0.
C6_CompleteInputMatches ==
    (/\ pc = "done"
     /\ Len(input) = 8640
     /\ Resolved(variant, input) = Grid)
    => /\ result.status = "returned"
       /\ result.match
       /\ result.missing_count = 0
       /\ result.invalid_count = 0

\* C7: appending a valid timestamp that is no slot of the target day (out
\* of the day, or between two slots) leaves missing_count, missing_index,
\* invalid_count and match as the call before gave them.
C7_OffGridEntriesChangeNothing ==
    (/\ CalledAfter("append")
     /\ prev_result.status = "returned"
     /\ ~isna(edit.new)
     /\ edit.new \notin Grid)
    => /\ result.status = "returned"
       /\ result.missing_count = prev_result.missing_count
       /\ result.missing_index = prev_result.missing_index
       /\ result.invalid_count = prev_result.invalid_count
       /\ result.match = prev_result.match

\* C8: a call with the empty input gives missing_count = 8640, the whole
\* canonical sequence as missing_index, invalid_count = 0, no invalid
\* positions and match = false.
C8_EmptyInputMissesEverySlot ==
    (pc = "done" /\ input = <<>>)
    => /\ result.status = "returned"
       /\ result.missing_count = 8640
       /\ result.missing_index = Canonical(target_date)
       /\ result.invalid_count = 0
       /\ result.invalid_positions = <<>>
       /\ ~result.match

\* C9: replacing the valid item at position p, which filled a slot, by an
\* item that resolves to no timestamp raises invalid_count by 1, puts p
\* among invalid_positions, and raises missing_count by 1 with that slot
\* now missing, unless another item still fills the slot, and then
\* missing_count stays as it was.
C9_ReplacingByInvalidOpensTheSlot ==
    (/\ CalledAfter("replace")
     /\ ~isna(edit.old)
     /\ edit.old \in Grid)
    => /\ prev_result.status = "returned"
       /\ result.status = "returned"
       /\ result.invalid_count = prev_result.invalid_count + 1
       /\ edit.pos \in Range(result.invalid_positions)
       /\ IF edit.old \in Resolved(variant, input)
          THEN result.missing_count = prev_result.missing_count
          ELSE /\ result.missing_count = prev_result.missing_count + 1
               /\ edit.old \in Range(result.missing_index)

\* C10: the canonical sequence a call builds has 8640 elements, starts at
\* the target day's 00:00:00, rises by exactly 10 seconds from each element
\* to the next, and ends at 23:59:50, before the next day's midnight.
C10_CanonicalSequence ==
    pc = "done" =>
        /\ Len(truth_index) = 8640
        /\ truth_index[1] = combine(target_date, 0, 0, 0)
        /\ \A i \in 1..(Len(truth_index) - 1) :
             /\ truth_index[i] < truth_index[i + 1]
             /\ truth_index[i + 1] - truth_index[i] = 10
        /\ truth_index[Len(truth_index)] = combine(target_date, 23, 59, 50)
        /\ truth_index[Len(truth_index)] < combine(target_date + 1, 0, 0, 0)

\* the text entry point has built its sequence for a day after the first
C10_Witness ==
    /\ pc = "done"
    /\ variant = "text"
    /\ target_date > 1
    /\ truth_index # <<>>

====
